---- MODULE Spec2Model ----
(***************************************************************************)
(* A model of flimsy's reactive core (src/src/flimsy.js): signals,         *)
(* observers, computations, roots, batching and the execution context.     *)
(*                                                                         *)
(* The library is synchronous and re-entrant, so the model is a stack      *)
(* machine: `stack` holds one frame per active call of a library method    *)
(* or of a user function, and each action executes one segment of the      *)
(* method on top of the stack, up to its next call or its return.  User    *)
(* functions (computation bodies, batch bodies, cleanups, handlers) are    *)
(* small programs over the public API, listed in Prog.                     *)
(***************************************************************************)
EXTENDS Integers, Sequences, FiniteSets, TLC

(***************************************************************************)
(* Bounds                                                                  *)
(***************************************************************************)
NSig == 2
MaxVal == 1
MaxObs == 6
MaxOps == 2

(***************************************************************************)
(* Values.  Signals hold small naturals; undefined and NaN are the two     *)
(* JavaScript values a user function of the catalogue can also produce.    *)
(***************************************************************************)
Undef == 0 - 1
NaN == 0 - 2
Values == 0..MaxVal

PlainSigs == 1..NSig
ObsIds == 1..MaxObs
SigIds == 1..(NSig + MaxObs)
Slots == 1..4

\* The internal signal of computation c (Computation.signal), and back
\* (Signal.parent); 0 stands for undefined.
SignalOf(c) == NSig + c
ParentOf(s) == IF s > NSig THEN s - NSig ELSE 0

(***************************************************************************)
(* JavaScript Set, kept as the sequence of its members in insertion order  *)
(***************************************************************************)
Range(q) == {q[i] : i \in 1..Len(q)}
SetAdd(q, x) == IF x \in Range(q) THEN q ELSE Append(q, x)
SetDelete(q, x) == SelectSeq(q, LAMBDA y : y # x)
IndexOf(q, x) == IF x \in Range(q) THEN CHOOSE i \in 1..Len(q) : q[i] = x ELSE 0

(***************************************************************************)
(* User programs: the instructions are calls of the public API.            *)
(*   S(i) is plain signal i, M(j) the memo getter held in variable j.      *)
(***************************************************************************)
S(i) == i
M(j) == NSig + j
Ins(o, x, y, f) == [op |-> o, x |-> x, y |-> y, f |-> f]
Get(r) == Ins("get", r, 0, "")
IfPos(n) == Ins("ifPos", n, 0, "")
Set(r, v) == Ins("set", r, v, "const")
SetFn(r, u) == Ins("set", r, 0, u)
Untrack(f) == Ins("untrack", 0, 0, f)
Batch(f) == Ins("batch", 0, 0, f)
Memo(f, j) == Ins("createMemo", j, 0, f)
Effect(f) == Ins("createEffect", 0, 0, f)
Root(f, j) == Ins("createRoot", j, 0, f)
Dispose(j) == Ins("dispose", j, 0, "")
OnCleanup(f) == Ins("onCleanup", 0, 0, f)
OnError(f) == Ins("onError", 0, 0, f)
Throw == Ins("throw", 0, 0, "")
ContextSet(v) == Ins("context.set", v, 0, "")
UseContext == Ins("useContext", 0, 0, "")

\* The bodies of the user functions, by name.
Prog(f) ==
  CASE f = "s1"      -> <<Get(S(1))>>
    [] f = "s2"      -> <<Get(S(2))>>
    [] f = "s1s2"    -> <<Get(S(1)), Get(S(2))>>
    [] f = "s1s1"    -> <<Get(S(1)), Get(S(1))>>
    [] f = "m1"      -> <<Get(M(1))>>
    [] f = "m2"      -> <<Get(M(2))>>
    [] f = "m1m2"    -> <<Get(M(1)), Get(M(2))>>
    [] f = "s1m1"    -> <<Get(S(1)), Get(M(1))>>
    [] f = "s1um1"   -> <<Get(S(1)), Untrack("m1")>>
    [] f = "s1?m1"   -> <<Get(S(1)), IfPos(1), Get(M(1))>>
    [] f = "s1?um1"  -> <<Get(S(1)), IfPos(1), Untrack("m1")>>
    [] f = "s2?s1"   -> <<Get(S(2)), IfPos(1), Get(S(1))>>
    [] f = "s1?bm1"  -> <<Get(S(1)), IfPos(1), Batch("bm1")>>
    [] f = "us1s2"   -> <<Untrack("s1"), Get(S(2))>>
    [] f = "parent"  -> <<Get(S(1)), OnCleanup("c1"), Effect("child"), OnCleanup("c2")>>
    [] f = "child"   -> <<Get(S(2)), OnCleanup("c3")>>
    [] f = "quit"    -> <<Get(S(1)), IfPos(1), Dispose(4), Get(S(2))>>
    [] f = "noop"    -> <<>>
    [] f = "quitc"   -> <<OnCleanup("cread"), Get(S(1)), IfPos(1), Dispose(4)>>
    [] f = "cread"   -> <<Get(S(2))>>
    [] f = "frail"   -> <<Get(S(1)), OnCleanup("cthrow")>>
    [] f = "cthrow"  -> <<Throw>>
    [] f = "boom"    -> <<Get(S(1)), IfPos(1), Throw>>
    [] f = "guard"   -> <<OnError("h2"), OnError("h3"), Effect("boom")>>
    [] f = "rTheme"  -> <<ContextSet(0), Effect("mid"), Effect("leaf")>>
    [] f = "mid"     -> <<Get(S(1)), IfPos(1), ContextSet(Undef), UseContext, Effect("leaf")>>
    [] f = "leaf"    -> <<Get(S(2)), UseContext>>
    [] f = "rw"      -> <<Get(S(1)), Set(S(1), 1)>>
    [] f = "wary"    -> <<OnError("h4"), Get(S(1)), IfPos(1), Throw>>
    [] f = "ushield" -> <<OnError("h5"), Untrack("boom"), Get(S(2))>>
    [] f = "nest"    -> <<Get(S(1)), Root("rInner", 4)>>
    \* batch bodies
    [] f = "b12"     -> <<Set(S(1), 1), Set(S(2), 1)>>
    [] f = "b101"    -> <<Set(S(1), 1), Set(S(1), 0), Get(S(1))>>
    [] f = "b1inc"   -> <<SetFn(S(1), "inc"), Get(S(1)), Get(M(1))>>
    [] f = "bb"      -> <<Set(S(2), 0), Batch("b12"), Get(S(1))>>
    [] f = "bm1"     -> <<Get(M(1))>>
    [] f = "bswap"   -> <<Set(S(1), 0), Set(S(2), 1)>>
    [] f = "bthrow"  -> <<Set(S(1), 1), Throw, Set(S(2), 1)>>
    \* createRoot bodies
    [] f = "rParent" -> <<Effect("parent"), OnCleanup("c4")>>
    [] f = "rQuit"   -> <<Effect("quit"), Memo("s1", 1)>>
    [] f = "rGuard"  -> <<OnError("h1"), Effect("guard"), Effect("boom")>>
    [] f = "rInner"  -> <<Effect("s2")>>
    [] f = "rLeave"  -> <<Effect("quitc")>>
    [] f = "rBrittle" -> <<OnCleanup("c4"), Effect("frail")>>
    \* top-level scripts: the graph that is built before the first write
    [] f = "diamond"   -> <<Memo("s1", 1), Memo("s1", 2), Effect("m1m2")>>
    [] f = "chain"     -> <<Memo("s1s2", 1), Memo("m1", 2), Effect("m2")>>
    [] f = "early"     -> <<Effect("s1?m1"), Memo("s1", 1), Effect("m1")>>
    [] f = "peek"      -> <<Effect("s1?um1"), Memo("s1", 1), Memo("m1", 2)>>
    [] f = "late"      -> <<Memo("s1s2", 1), Effect("s1m1"), Effect("s1um1")>>
    [] f = "pair"      -> <<Effect("s1s2"), Effect("s1s1"), Memo("s1", 1)>>
    [] f = "batched"   -> <<Effect("s1?bm1"), Memo("s1", 1)>>
    [] f = "dynamic"   -> <<Set(S(2), 1), Effect("s2?s1"), Effect("us1s2"), Set(S(2), 0)>>
    [] f = "owner"     -> <<Root("rParent", 4)>>
    [] f = "quitter"   -> <<Root("rQuit", 4)>>
    [] f = "guarded"   -> <<Root("rGuard", 4)>>
    [] f = "fragile"   -> <<Effect("boom"), Effect("s1")>>
    [] f = "nested"    -> <<Effect("nest")>>
    [] f = "shielded"  -> <<Effect("wary"), Effect("ushield")>>
    [] f = "themed"    -> <<ContextSet(0), Root("rTheme", 4), UseContext>>
    [] f = "leaver"    -> <<Root("rLeave", 4)>>
    [] f = "brittle"   -> <<Root("rBrittle", 4)>>
    [] f = "tolerant"  -> <<Memo("wary", 1), Effect("s1"), Effect("m1")>>
    [] f = "selfwrite" -> <<Effect("s2"), Effect("rw")>>
    [] OTHER         -> <<>>

Setups == {"diamond", "chain", "early", "peek", "late", "pair", "batched",
           "dynamic", "owner", "quitter", "guarded", "fragile", "nested",
           "shielded", "themed", "selfwrite", "leaver", "brittle",
           "tolerant"}
BatchBodies == {"b12", "b101", "b1inc", "bb", "bthrow"}

\* What the top-level caller may do once the graph is built.
TopCodes(setup) ==
  {<<Set(s, v)>> : s \in PlainSigs, v \in Values}
    \cup {<<Batch(b)>> : b \in BatchBodies}
    \cup (IF setup \in {"owner", "quitter", "guarded", "nested", "brittle"} THEN {<<Dispose(4)>>} ELSE {})
    \cup (IF setup \in {"chain", "late", "peek"} THEN {<<Get(M(1))>>} ELSE {})
    \cup (IF setup = "chain" THEN {<<Batch("bswap")>>} ELSE {})
    \cup (IF setup = "themed" THEN {<<UseContext>>} ELSE {})
    \cup (IF setup = "fragile" THEN {<<Effect("boom")>>, <<Memo("boom", 2)>>} ELSE {})

\* An update function passed to a setter: v => v, v => v + 1 (wrapping).
ApplyUpdate(u, v) ==
  CASE u = "id"  -> v
    [] u = "inc" -> IF v < 0 THEN NaN ELSE (v + 1) % (MaxVal + 1)
    [] OTHER     -> v

\* What a user function returns: the sum of the values it read (undefined
\* when it read nothing, NaN when a summand is undefined or NaN).
RECURSIVE SumVals(_)
SumVals(vs) ==
  IF vs = <<>> THEN 0
  ELSE IF Head(vs) < 0 \/ SumVals(Tail(vs)) < 0 THEN NaN
  ELSE Head(vs) + SumVals(Tail(vs))
LastVal(vs) == IF vs = <<>> THEN 0 ELSE vs[Len(vs)]
RetVal(vs) ==
  IF vs = <<>> THEN Undef
  ELSE IF Len(vs) = 1 THEN vs[1]
  ELSE SumVals(vs)

VARIABLES
  sig,        \* Signal objects: value, observers, equals
  obs,        \* Observer objects (Root, Computation) and their fields
  BATCH,      \* the global BATCH: the Map of staged values, when active
  OBSERVER,   \* the global OBSERVER (0: undefined)
  TRACKING,   \* the global TRACKING
  stack,      \* the call stack, innermost frame last
  ret,        \* the value returned by the call that completed last
  exc,        \* the error being thrown ("" when none)
  slot,       \* the caller's variables holding memo getters / root disposers
  nextObs,    \* the next observer to be constructed
  setup,      \* the script that built the graph
  ops,        \* top-level operations started after the script
  op,         \* history: the code of the top-level operation in progress or done last
  pre,        \* history: the values of the plain signals when op began
  runs,       \* history: executions of each computation's fn in this operation
  tracked,    \* history: signals each computation read, tracked, in its latest run
  dead,       \* history: observers disposed and not re-run since
  glitch,     \* history: reads of a memo that returned a value behind its sources
  uncaught,   \* history: the error the last top-level operation let through
  registered, \* history: the cleanups each observer registered, from the start of op
  invoked,    \* history: the cleanups of each observer invoked, from the start of op
  pristine,   \* history: observers disposed, with nothing registered on them since
  handled     \* history: the error handlers invoked in this operation

vars == <<sig, obs, BATCH, OBSERVER, TRACKING, stack, ret, exc, slot, nextObs,
          setup, ops, op, pre, runs, tracked, dead, glitch, uncaught,
          registered, invoked, pristine, handled>>

\* The one context of the programs, createContext(1), is absent from an
\* observer's contexts until the observer sets it.
DefaultValue == 1
Absent == 0 - 3
NoContexts == [err |-> <<>>, val |-> Absent]

NoObs == [kind |-> "none", parent |-> 0, cleanups |-> <<>>, contexts |-> NoContexts,
          observers |-> <<>>, signals |-> {}, fn |-> "", signal |-> 0,
          waiting |-> 0, fresh |-> FALSE]

NoBatch == [active |-> FALSE, map |-> <<>>]

FnFrame(code) == [k |-> "fn", code |-> code, pc |-> 1, vals |-> <<>>, wait |-> FALSE, callee |-> 0]

Init ==
  /\ sig = [s \in SigIds |->
              [value |-> IF s \in PlainSigs THEN 0 ELSE Undef,
               observers |-> <<>>, equals |-> "is"]]
  /\ obs = [o \in ObsIds |-> NoObs]
  /\ BATCH = NoBatch
  /\ OBSERVER = 0
  /\ TRACKING = FALSE
  /\ setup \in Setups
  /\ stack = <<FnFrame(Prog(setup))>>
  /\ ret = Undef
  /\ exc = ""
  /\ slot = [j \in Slots |-> 0]
  /\ nextObs = 1
  /\ ops = 0
  /\ op = <<>>
  /\ pre = [s \in PlainSigs |-> 0]
  /\ runs = [o \in ObsIds |-> 0]
  /\ tracked = [o \in ObsIds |-> {}]
  /\ dead = {}
  /\ glitch = {}
  /\ uncaught = ""
  /\ registered = [o \in ObsIds |-> <<>>]
  /\ invoked = [o \in ObsIds |-> <<>>]
  /\ pristine = {}
  /\ handled = <<>>

(***************************************************************************)
(* The stack machine                                                       *)
(***************************************************************************)
Top == stack[Len(stack)]
Rest == SubSeq(stack, 1, Len(stack) - 1)
Busy == stack # <<>> /\ exc = ""
Cur == Top.code[Top.pc]

\* The fn on top of the stack is about to execute instruction op / has just
\* seen the call made by instruction op return.
AtIns(o) ==
  /\ Busy /\ Top.k = "fn" /\ ~Top.wait
  /\ Top.pc <= Len(Top.code) /\ Cur.op = o
Resumed(o) ==
  /\ Busy /\ Top.k = "fn" /\ Top.wait /\ Cur.op = o

Advance(f, vs) == [f EXCEPT !.pc = @ + 1, !.wait = FALSE, !.vals = vs]
Goto(fr) == stack' = [stack EXCEPT ![Len(stack)] = fr]
Call(fr, callee) == stack' = Append([stack EXCEPT ![Len(stack)] = fr], callee)
Return == stack' = Rest

\* The signal a program's reference denotes (0: the variable is undefined).
Resolve(r) ==
  IF r <= NSig THEN r
  ELSE IF slot[r - NSig] = 0 THEN 0 ELSE SignalOf(slot[r - NSig])

ctx == <<OBSERVER, TRACKING>>
env == <<slot, nextObs, setup, ops, op, pre>>
logs == <<registered, invoked, pristine, handled>>
hist == <<runs, tracked, dead, glitch, uncaught, logs>>

SetFrame(s, u, v) == [k |-> "Signal.set", s |-> s, u |-> u, v |-> v, phase |-> "start"]
StaleFrame(s, change, fresh) ==
  [k |-> "Signal.stale", s |-> s, change |-> change, fresh |-> fresh, i |-> 1]
CStaleFrame(c, change, fresh) ==
  [k |-> "Computation.stale", c |-> c, change |-> change, fresh |-> fresh, phase |-> "start"]
UpdateFrame(c) == [k |-> "Computation.update", c |-> c, phase |-> "start"]
RunFrame(c) == [k |-> "Computation.run", c |-> c, phase |-> "start"]
DisposeFrame(o) ==
  [k |-> "Observer.dispose", o |-> o, phase |-> "children", i |-> 1, n |-> 0,
   live |-> TRUE, observers |-> <<>>, cleanups |-> <<>>]
WrapFrame(f, observer, tracking) ==
  [k |-> "Wrapper.wrap", f |-> f, observer |-> observer, tracking |-> tracking,
   phase |-> "enter", OBSERVER_PREV |-> 0, TRACKING_PREV |-> FALSE,
   error |-> "", fns |-> <<>>, i |-> 1]
BatchFrame(f) ==
  [k |-> "batch", f |-> f, phase |-> "start", batch |-> <<>>, i |-> 1,
   retv |-> Undef, excv |-> ""]
NewFrame(c) == [k |-> "Computation", c |-> c]

(***************************************************************************)
(* Signal                                                                  *)
(***************************************************************************)
IsComputation(o) == o # 0 /\ obs[o].kind = "Computation"

\* A comparison that never finds two values equal.
NeverEquals(eq, a, b) == FALSE

\* Signal.equals: Object.is, or () => false for equals: false.
Equals(eq, a, b) == IF eq = "never" THEN FALSE ELSE a = b

\* Map.set on the batch: a staged signal keeps its place, its value is replaced.
MapSet(m, s, v) ==
  IF \E i \in 1..Len(m) : m[i][1] = s
    THEN [i \in 1..Len(m) |-> IF m[i][1] = s THEN <<s, v>> ELSE m[i]]
    ELSE Append(m, <<s, v>>)

\* A read that registers the edge whatever TRACKING is.
TracksAlways == IsComputation(OBSERVER)

\* Whether a read registers the dependency edge.
Tracks == TRACKING /\ IsComputation(OBSERVER)


\* What the body of a memo yields on the values the plain signals hold now,
\* reading through the memos it reads (its sources are the plain signals).
RECURSIVE Sources(_, _, _)
Sources(code, pc, vs) ==
  IF pc > Len(code) THEN RetVal(vs)
  ELSE LET ins == code[pc]
       IN CASE ins.op = "get" ->
                 Sources(code, pc + 1,
                         Append(vs, IF ins.x <= NSig THEN sig[ins.x].value
                                    ELSE IF slot[ins.x - NSig] = 0 THEN Undef
                                    ELSE Sources(Prog(obs[slot[ins.x - NSig]].fn), 1, <<>>)))
            [] ins.op = "untrack" ->
                 Sources(code, pc + 1, Append(vs, Sources(Prog(ins.f), 1, <<>>)))
            [] ins.op = "ifPos" ->
                 Sources(code, IF LastVal(vs) > 0 THEN pc + 1 ELSE pc + 1 + ins.x, vs)
            [] OTHER -> Sources(code, pc + 1, vs)

\* A read of memo signal s by a running computation that returns something
\* else than the memo's function of the current sources.
Glitch(s) ==
  IF ParentOf(s) # 0 /\ OBSERVER # 0 /\ ParentOf(s) \notin dead
       /\ sig[s].value # Sources(Prog(obs[ParentOf(s)].fn), 1, <<>>)
    THEN {<<OBSERVER, s>>} ELSE {}

\* Whether the parent memo of the signal must be refreshed before the read.
Stale(s) == ParentOf(s) # 0 /\ obs[ParentOf(s)].waiting # 0

\* Signal.get, up to the forced refresh of a stale parent memo.
SignalGet ==
  /\ AtIns("get")
  /\ Resolve(Cur.x) # 0
  /\ LET s == Resolve(Cur.x)
         p == ParentOf(s)
     IN /\ sig' = IF Tracks THEN [sig EXCEPT ![s].observers = SetAdd(@, OBSERVER)] ELSE sig
        /\ obs' = IF Tracks THEN [obs EXCEPT ![OBSERVER].signals = @ \cup {s}] ELSE obs
        /\ tracked' = IF Tracks THEN [tracked EXCEPT ![OBSERVER] = @ \cup {s}] ELSE tracked
        /\ IF Stale(s)
             THEN /\ Call([Top EXCEPT !.wait = TRUE, !.callee = s], UpdateFrame(p))
                  /\ UNCHANGED glitch
             ELSE /\ Goto(Advance(Top, Append(Top.vals, sig[s].value)))
                  /\ glitch' = glitch \cup Glitch(s)
        /\ pristine' = IF Tracks THEN pristine \ {OBSERVER} ELSE pristine
  /\ UNCHANGED <<BATCH, ctx, ret, exc, env, runs, dead, uncaught, registered, invoked, handled>>

\* Signal.get after the parent's update: return this.value.
SignalGetReturn ==
  /\ Resumed("get")
  /\ Goto(Advance(Top, Append(Top.vals, sig[Top.callee].value)))
  /\ glitch' = glitch \cup Glitch(Top.callee)
  /\ UNCHANGED <<sig, obs, BATCH, ctx, ret, exc, env, runs, tracked, dead, uncaught, logs>>

\* Calling a getter variable that holds undefined: a TypeError in user code.
CallUndefined ==
  /\ AtIns("get")
  /\ Resolve(Cur.x) = 0
  /\ exc' = "TypeError"
  /\ UNCHANGED <<sig, obs, BATCH, ctx, stack, ret, env, hist>>

\* The setter called by user code.
UserSet ==
  /\ AtIns("set")
  /\ Call([Top EXCEPT !.wait = TRUE], SetFrame(Resolve(Cur.x), Cur.f, Cur.y))
  /\ UNCHANGED <<sig, obs, BATCH, ctx, ret, exc, env, hist>>

ValueNext(fr) ==
  IF fr.u = "const" THEN fr.v ELSE ApplyUpdate(fr.u, sig[fr.s].value)

\* A setter that never sees the batch.
NotBatching == FALSE

AtSet(phase) == Busy /\ Top.k = "Signal.set" /\ Top.phase = phase
SameValue(fr) == Equals(sig[fr.s].equals, sig[fr.s].value, ValueNext(fr))
Batching == BATCH.active

\* Signal.set with an equal next value.
SignalSetEqual ==
  /\ AtSet("start")
  /\ SameValue(Top)
  /\ Return
  /\ ret' = sig[Top.s].value
  /\ UNCHANGED <<sig, obs, BATCH, ctx, exc, env, hist>>

\* Signal.set while batching: the value is staged.
SignalSetBatched ==
  /\ AtSet("start")
  /\ ~SameValue(Top)
  /\ Batching
  /\ BATCH' = [BATCH EXCEPT !.map = MapSet(@, Top.s, ValueNext(Top))]
  /\ Return
  /\ ret' = sig[Top.s].value
  /\ UNCHANGED <<sig, obs, ctx, exc, env, hist>>

\* Signal.set: the assignment and this.stale(1, true).
SignalSetAssign ==
  /\ AtSet("start")
  /\ ~SameValue(Top)
  /\ ~Batching
  /\ sig' = [sig EXCEPT ![Top.s].value = ValueNext(Top)]
  /\ Call([Top EXCEPT !.phase = "unstale"], StaleFrame(Top.s, 1, TRUE))
  /\ UNCHANGED <<obs, BATCH, ctx, ret, exc, env, hist>>

\* Signal.set: this.stale(-1, true).
SignalSetUnstale ==
  /\ AtSet("unstale")
  /\ Call([Top EXCEPT !.phase = "return"], StaleFrame(Top.s, 0 - 1, TRUE))
  /\ UNCHANGED <<sig, obs, BATCH, ctx, ret, exc, env, hist>>

\* Signal.set: return this.value.
SignalSetReturn ==
  /\ AtSet("return")
  /\ Return
  /\ ret' = sig[Top.s].value
  /\ UNCHANGED <<sig, obs, BATCH, ctx, exc, env, hist>>

\* Signal.stale: observers.forEach, one observer per step.  The Set is live:
\* members appended during the loop are visited, deleted ones are not.
SignalStale ==
  /\ Busy /\ Top.k = "Signal.stale"
  /\ Top.i <= Len(sig[Top.s].observers)
  /\ Call([Top EXCEPT !.i = @ + 1],
          CStaleFrame(sig[Top.s].observers[Top.i], Top.change, Top.fresh))
  /\ UNCHANGED <<sig, obs, BATCH, ctx, ret, exc, env, hist>>

SignalStaleDone ==
  /\ Busy /\ Top.k = "Signal.stale"
  /\ Top.i > Len(sig[Top.s].observers)
  /\ Return
  /\ UNCHANGED <<sig, obs, BATCH, ctx, ret, exc, env, hist>>

(***************************************************************************)
(* Observer                                                                *)
(***************************************************************************)
\* A member at place p was deleted from a live Set: a forEach loop over that
\* Set which is already past p moves one back.
Shifted(fr, p) == IF p # 0 /\ p < fr.i THEN [fr EXCEPT !.i = @ - 1] ELSE fr

\* ... from signal s's observers, iterated by Signal.stale
DeletedObserver(st, s, p) ==
  [n \in 1..Len(st) |->
     IF st[n].k = "Signal.stale" /\ st[n].s = s THEN Shifted(st[n], p) ELSE st[n]]

\* ... from observer o's children, iterated by Observer.dispose
DeletedChild(st, o, p) ==
  [n \in 1..Len(st) |->
     IF st[n].k = "Observer.dispose" /\ st[n].o = o /\ st[n].live
          /\ st[n].phase = "children"
       THEN Shifted(st[n], p) ELSE st[n]]

\* A dispose that leaves the signals' observer sets as they are.
KeepSubscriptions(sg, ss, o) == sg

\* this.signals.forEach(signal => signal.observers.delete(this)), on the
\* signals in ss.
RECURSIVE Unsubscribe(_, _, _)
Unsubscribe(sg, ss, o) ==
  IF ss = {} THEN sg
  ELSE LET s == CHOOSE x \in ss : TRUE
       IN Unsubscribe([sg EXCEPT ![s].observers = SetDelete(@, o)], ss \ {s}, o)

RECURSIVE UnsubscribeIters(_, _, _)
UnsubscribeIters(st, ss, o) ==
  IF ss = {} THEN st
  ELSE LET s == CHOOSE x \in ss : TRUE
       IN UnsubscribeIters(DeletedObserver(st, s, IndexOf(sig[s].observers, o)),
                           ss \ {s}, o)

AtDispose(phase) == Busy /\ Top.k = "Observer.dispose" /\ Top.phase = phase
ChildrenOf(fr) == IF fr.live THEN obs[fr.o].observers ELSE fr.observers
CleanupsOf(fr) == IF fr.live THEN obs[fr.o].cleanups ELSE fr.cleanups

\* Observer.dispose: this.observers.forEach(observer => observer.dispose()).
ObserverDisposeChild ==
  /\ AtDispose("children")
  /\ Top.i <= Len(ChildrenOf(Top))
  /\ Call([Top EXCEPT !.i = @ + 1], DisposeFrame(ChildrenOf(Top)[Top.i]))
  /\ UNCHANGED <<sig, obs, BATCH, ctx, ret, exc, env, hist>>

\* Observer.dispose: the signals are told to forget this observer; the
\* cleanups loop starts.
ObserverDisposeSignals ==
  /\ AtDispose("children")
  /\ Top.i > Len(ChildrenOf(Top))
  /\ LET o == Top.o
         fr == [Top EXCEPT !.phase = "cleanups", !.i = 1, !.n = Len(obs[o].cleanups)]
     IN /\ sig' = Unsubscribe(sig, obs[o].signals, o)
        /\ stack' = UnsubscribeIters([stack EXCEPT ![Len(stack)] = fr], obs[o].signals, o)
  /\ UNCHANGED <<obs, BATCH, ctx, ret, exc, env, hist>>

\* Observer.dispose: this.cleanups.forEach(cleanup => cleanup()).
ObserverDisposeCleanup ==
  /\ AtDispose("cleanups")
  /\ Top.i <= Top.n
  /\ Call([Top EXCEPT !.i = @ + 1], FnFrame(Prog(CleanupsOf(Top)[Top.i])))
  /\ invoked' = [invoked EXCEPT ![Top.o] = Append(@, CleanupsOf(Top)[Top.i])]
  /\ UNCHANGED <<sig, obs, BATCH, ctx, ret, exc, env, runs, tracked, dead, glitch, uncaught,
                 registered, pristine, handled>>

\* A dispose that empties nothing.
ClearedNothing(ob) == ob

\* A dispose that forgets to empty the list of cleanups.
ClearedKeepsCleanups(ob) ==
  [ob EXCEPT !.contexts = NoContexts, !.observers = <<>>, !.signals = {}]

\* The loops of dispose calls still running on observer o keep the Set and
\* the array they began with when o's fields are replaced by new ones.
Detached(st, o) ==
  [n \in 1..Len(st) |->
     IF st[n].k = "Observer.dispose" /\ st[n].o = o /\ st[n].live
       THEN [st[n] EXCEPT !.live = FALSE, !.observers = obs[o].observers,
                          !.cleanups = obs[o].cleanups]
       ELSE st[n]]

Cleared(ob) ==
  [ob EXCEPT !.cleanups = <<>>, !.contexts = NoContexts,
             !.observers = <<>>, !.signals = {}]

\* Observer.dispose: the fields are emptied and the observer is unlinked
\* from its parent.
ObserverDisposeClear ==
  /\ AtDispose("cleanups")
  /\ Top.i > Top.n
  /\ LET o == Top.o
         p == obs[o].parent
         cleared == [obs EXCEPT ![o] = Cleared(@)]
     IN /\ obs' = IF p = 0 THEN cleared
                  ELSE [cleared EXCEPT ![p].observers = SetDelete(@, o)]
        /\ stack' = IF p = 0 THEN Detached(Rest, o)
                    ELSE DeletedChild(Detached(Rest, o), p,
                                      IndexOf(cleared[p].observers, o))
        /\ dead' = dead \cup {o}
        /\ pristine' = pristine \cup {o}
  /\ UNCHANGED <<sig, BATCH, ctx, ret, exc, env, runs, tracked, glitch, uncaught,
                 registered, invoked, handled>>

\* A lookup that does not go to the parent.
ObserverGetOwn(o) == IF o = 0 THEN <<>> ELSE obs[o].contexts.err

\* Observer.get(SYMBOL_ERRORS): the nearest handlers on the parent chain.
RECURSIVE ObserverGet(_)
ObserverGet(o) ==
  IF o = 0 THEN <<>>
  ELSE IF obs[o].contexts.err # <<>> THEN obs[o].contexts.err
  ELSE ObserverGet(obs[o].parent)

(***************************************************************************)
(* Wrapper                                                                 *)
(***************************************************************************)
AtWrap(phase) == stack # <<>> /\ Top.k = "Wrapper.wrap" /\ Top.phase = phase

\* A wrap without its finally block: the globals stay as installed.
FinallySkipped(fr) == <<fr.observer, fr.tracking>>

\* Wrapper.wrap, finally: the globals get the values saved on entry.
Finally(fr) == <<fr.OBSERVER_PREV, fr.TRACKING_PREV>>

\* Wrapper.wrap: the globals are saved and set, fn is called.
WrapperWrap ==
  /\ AtWrap("enter") /\ exc = ""
  /\ OBSERVER' = Top.observer
  /\ TRACKING' = Top.tracking
  /\ Call([Top EXCEPT !.phase = "try", !.OBSERVER_PREV = OBSERVER,
                      !.TRACKING_PREV = TRACKING],
          FnFrame(Prog(Top.f)))
  /\ UNCHANGED <<sig, obs, BATCH, ret, exc, env, hist>>

\* Wrapper.wrap: fn returned; finally.
WrapperReturn ==
  /\ AtWrap("try") /\ exc = ""
  /\ OBSERVER' = Finally(Top)[1]
  /\ TRACKING' = Finally(Top)[2]
  /\ Return
  /\ UNCHANGED <<sig, obs, BATCH, ret, exc, env, hist>>

\* Wrapper.wrap: fn threw and handlers are found.
WrapperCatch ==
  /\ AtWrap("try") /\ exc # ""
  /\ ObserverGet(Top.observer) # <<>>
  /\ exc' = ""
  /\ Goto([Top EXCEPT !.phase = "handlers", !.error = exc,
                      !.fns = ObserverGet(Top.observer), !.i = 1])
  /\ UNCHANGED <<sig, obs, BATCH, ctx, ret, env, hist>>

\* A catch block that drops the error.
Swallowed(error) == ""

\* else { throw error }
Rethrown(error) == error

\* Wrapper.wrap: fn threw and there is no handler: throw error; finally.
WrapperRethrow ==
  /\ AtWrap("try") /\ exc # ""
  /\ ObserverGet(Top.observer) = <<>>
  /\ exc' = Rethrown(exc)
  /\ OBSERVER' = Finally(Top)[1]
  /\ TRACKING' = Finally(Top)[2]
  /\ Return
  /\ UNCHANGED <<sig, obs, BATCH, ret, env, hist>>

\* Wrapper.wrap: fns.forEach(fn => fn(error)).
WrapperHandler ==
  /\ AtWrap("handlers") /\ exc = ""
  /\ Top.i <= Len(Top.fns)
  /\ Call([Top EXCEPT !.i = @ + 1], FnFrame(Prog(Top.fns[Top.i])))
  /\ handled' = Append(handled, <<Top.fns[Top.i], Top.error>>)
  /\ UNCHANGED <<sig, obs, BATCH, ctx, ret, exc, env, runs, tracked, dead, glitch, uncaught,
                 registered, invoked, pristine>>

\* A catch block that throws the error again after the handlers.
AbsorbedNot(error) == error

\* The catch block ends after fns.forEach: the error goes no further.
Absorbed(error) == ""

\* Wrapper.wrap: the handlers are done (the call yields undefined), or one
\* of them threw; finally.
WrapperHandled ==
  /\ AtWrap("handlers")
  /\ exc # "" \/ Top.i > Len(Top.fns)
  /\ OBSERVER' = Finally(Top)[1]
  /\ TRACKING' = Finally(Top)[2]
  /\ Return
  /\ ret' = IF exc = "" THEN Undef ELSE ret
  /\ exc' = IF exc = "" THEN Absorbed(Top.error) ELSE exc
  /\ UNCHANGED <<sig, obs, BATCH, env, hist>>

(***************************************************************************)
(* Computation                                                             *)
(***************************************************************************)
AtRun(phase) == Busy /\ Top.k = "Computation.run" /\ Top.phase = phase
AtUpdate(phase) == Busy /\ Top.k = "Computation.update" /\ Top.phase = phase
AtStale(phase) == Busy /\ Top.k = "Computation.stale" /\ Top.phase = phase

\* Computation.run: this.dispose().
ComputationRun ==
  /\ AtRun("start")
  /\ Call([Top EXCEPT !.phase = "link"], DisposeFrame(Top.c))
  /\ UNCHANGED <<sig, obs, BATCH, ctx, ret, exc, env, hist>>

\* Computation.run: the computation is linked with its parent again and fn
\* is called through Wrapper.wrap(this.fn, this, true).
ComputationRunLink ==
  /\ AtRun("link")
  /\ LET c == Top.c
         p == obs[c].parent
     IN /\ obs' = IF p = 0 THEN obs ELSE [obs EXCEPT ![p].observers = SetAdd(@, c)]
        /\ Goto(WrapFrame(obs[c].fn, c, TRUE))
        /\ runs' = [runs EXCEPT ![c] = @ + 1]
        /\ tracked' = [tracked EXCEPT ![c] = {}]
        /\ dead' = dead \ {c}
        /\ pristine' = pristine \ {c, p}
  /\ UNCHANGED <<sig, BATCH, ctx, ret, exc, env, glitch, uncaught, registered, invoked, handled>>

\* Computation.update: this.waiting = 0, then this.run().
ComputationUpdate ==
  /\ AtUpdate("start")
  /\ obs' = [obs EXCEPT ![Top.c].waiting = 0]
  /\ Call([Top EXCEPT !.phase = "set"], RunFrame(Top.c))
  /\ UNCHANGED <<sig, BATCH, ctx, ret, exc, env, hist>>

\* Computation.update: this.signal.set(<the value run returned>).
ComputationUpdateSet ==
  /\ AtUpdate("set")
  /\ Goto(SetFrame(obs[Top.c].signal, "const", ret))
  /\ UNCHANGED <<sig, obs, BATCH, ctx, ret, exc, env, hist>>

\* A computation that settles on every notification, not only when its
\* counter is back at zero.
ReleasedAlways(waiting) == TRUE

\* A stale call that counts every notification.
IgnoresNothing(waiting, change) == FALSE

\* A computation that settles while notifications are still outstanding.
ReleasedWaiting(waiting) == waiting >= 0

\* The conditions of Computation.stale: a late -1, the first +1 of a wave,
\* and the counter back at zero.
IgnoresStale(waiting, change) == waiting = 0 /\ change < 0
EntersWait(waiting, change) == waiting = 0 /\ change > 0
Released(waiting) == waiting = 0

\* Computation.stale: a late -1 is ignored.
ComputationStaleIgnore ==
  /\ AtStale("start")
  /\ IgnoresStale(obs[Top.c].waiting, Top.change)
  /\ Return
  /\ UNCHANGED <<sig, obs, BATCH, ctx, ret, exc, env, hist>>

\* The TypeError of this.signal.stale(...) while this.signal is undefined.
NoSignal == "TypeError: this.signal is undefined"

\* Computation.stale: the first +1 of a wave is passed on to the dependents.
\* Before its constructor has finished, the computation has no signal yet.
ComputationStaleEnter ==
  /\ AtStale("start")
  /\ EntersWait(obs[Top.c].waiting, Top.change)
  /\ IF obs[Top.c].signal = 0
       THEN exc' = NoSignal /\ UNCHANGED stack
       ELSE /\ Call([Top EXCEPT !.phase = "count"], StaleFrame(obs[Top.c].signal, 1, FALSE))
            /\ UNCHANGED exc
  /\ UNCHANGED <<sig, obs, BATCH, ctx, ret, env, hist>>

\* this.waiting += change; this.fresh ||= fresh; then, when no longer
\* waiting: update if fresh.
ComputationStaleCount ==
  /\ \/ AtStale("count")
     \/ /\ AtStale("start")
        /\ ~IgnoresStale(obs[Top.c].waiting, Top.change)
        /\ ~EntersWait(obs[Top.c].waiting, Top.change)
  /\ LET c == Top.c
         waiting == obs[c].waiting + Top.change
         fresh == obs[c].fresh \/ Top.fresh
     IN /\ obs' = [obs EXCEPT ![c].waiting = waiting, ![c].fresh = fresh]
        /\ IF ~Released(waiting) THEN Return
           ELSE IF fresh THEN Call([Top EXCEPT !.phase = "release"], UpdateFrame(c))
           ELSE Goto([Top EXCEPT !.phase = "release"])
  /\ UNCHANGED <<sig, BATCH, ctx, ret, exc, env, hist>>

\* Computation.stale: this.signal.stale(-1, false).
ComputationStaleRelease ==
  /\ AtStale("release")
  /\ Goto(StaleFrame(obs[Top.c].signal, 0 - 1, FALSE))
  /\ UNCHANGED <<sig, obs, BATCH, ctx, ret, exc, env, hist>>

\* new Computation(fn): the fields, then this.run() for the first value.
NewComputation(c, f) ==
  [NoObs EXCEPT !.kind = "Computation", !.parent = OBSERVER, !.fn = f]

CreateComputation ==
  /\ AtIns("createMemo") \/ AtIns("createEffect")
  /\ nextObs <= MaxObs
  /\ obs' = [obs EXCEPT ![nextObs] = NewComputation(nextObs, Cur.f)]
  /\ nextObs' = nextObs + 1
  /\ stack' = [stack EXCEPT ![Len(stack)] = [Top EXCEPT !.wait = TRUE, !.callee = nextObs]]
                \o <<NewFrame(nextObs), RunFrame(nextObs)>>
  /\ UNCHANGED <<sig, BATCH, ctx, ret, exc, slot, setup, ops, op, pre, hist>>

\* A constructor that drops its argument.
NewSignalUndefined(value) == [value |-> Undef, observers |-> <<>>, equals |-> "is"]

\* new Signal(value)
NewSignal(value) == [value |-> value, observers |-> <<>>, equals |-> "is"]

\* this.signal = new Signal(<the value run returned>); this.signal.parent = this.
ComputationSignal ==
  /\ Busy /\ Top.k = "Computation"
  /\ sig' = [sig EXCEPT ![SignalOf(Top.c)] = NewSignal(ret)]
  /\ obs' = [obs EXCEPT ![Top.c].signal = SignalOf(Top.c)]
  /\ Return
  /\ UNCHANGED <<BATCH, ctx, ret, exc, env, hist>>

\* createMemo returned its getter, createEffect returned.
CreateMemoReturn ==
  /\ Resumed("createMemo")
  /\ slot' = [slot EXCEPT ![Cur.x] = Top.callee]
  /\ Goto(Advance(Top, Top.vals))
  /\ UNCHANGED <<sig, obs, BATCH, ctx, ret, exc, nextObs, setup, ops, op, pre, hist>>

(***************************************************************************)
(* Root, batch, untrack, onCleanup, onError                                *)
(***************************************************************************)
\* A Root that enters the children of the observer it is created under.
NewRootOwned(r) ==
  LET made == [obs EXCEPT ![r] = [NoObs EXCEPT !.kind = "Root", !.parent = OBSERVER]]
  IN IF OBSERVER = 0 THEN made
     ELSE [made EXCEPT ![OBSERVER].observers = SetAdd(@, r)]

\* new Root(): the fields of an Observer; its parent's children are not
\* touched.
NewRoot(r) == [obs EXCEPT ![r] = [NoObs EXCEPT !.kind = "Root", !.parent = OBSERVER]]

\* createRoot: new Root().wrap(fn); fn receives this.dispose.
CreateRoot ==
  /\ AtIns("createRoot")
  /\ nextObs <= MaxObs
  /\ obs' = NewRoot(nextObs)
  /\ slot' = [slot EXCEPT ![Cur.x] = nextObs]
  /\ nextObs' = nextObs + 1
  /\ Call([Top EXCEPT !.wait = TRUE], WrapFrame(Cur.f, nextObs, FALSE))
  /\ UNCHANGED <<sig, BATCH, ctx, ret, exc, setup, ops, op, pre, hist>>

\* The dispose function of a root, called by user code.
UserDispose ==
  /\ AtIns("dispose")
  /\ slot[Cur.x] # 0
  /\ Call([Top EXCEPT !.wait = TRUE], DisposeFrame(slot[Cur.x]))
  /\ UNCHANGED <<sig, obs, BATCH, ctx, ret, exc, env, hist>>

\* untrack(fn): Wrapper.wrap(fn, OBSERVER, false).
Untracked ==
  /\ AtIns("untrack")
  /\ Call([Top EXCEPT !.wait = TRUE], WrapFrame(Cur.f, OBSERVER, FALSE))
  /\ UNCHANGED <<sig, obs, BATCH, ctx, ret, exc, env, hist>>

UntrackReturn ==
  /\ Resumed("untrack")
  /\ Goto(Advance(Top, Append(Top.vals, ret)))
  /\ UNCHANGED <<sig, obs, BATCH, ctx, ret, exc, env, hist>>

\* onCleanup(fn): OBSERVER?.cleanups.push(fn).
OnCleanupCall ==
  /\ AtIns("onCleanup")
  /\ obs' = IF OBSERVER = 0 THEN obs
            ELSE [obs EXCEPT ![OBSERVER].cleanups = Append(@, Cur.f)]
  /\ registered' = IF OBSERVER = 0 THEN registered
                   ELSE [registered EXCEPT ![OBSERVER] = Append(@, Cur.f)]
  /\ pristine' = pristine \ {OBSERVER}
  /\ Goto(Advance(Top, Top.vals))
  /\ UNCHANGED <<sig, BATCH, ctx, ret, exc, env, runs, tracked, dead, glitch, uncaught,
                 invoked, handled>>

\* onError(fn): the handler is appended to OBSERVER.contexts[SYMBOL_ERRORS].
OnErrorCall ==
  /\ AtIns("onError")
  /\ obs' = IF OBSERVER = 0 THEN obs
            ELSE [obs EXCEPT ![OBSERVER].contexts.err = Append(@, Cur.f)]
  /\ pristine' = pristine \ {OBSERVER}
  /\ Goto(Advance(Top, Top.vals))
  /\ UNCHANGED <<sig, BATCH, ctx, ret, exc, env, runs, tracked, dead, glitch, uncaught,
                 registered, invoked, handled>>

\* A lookup that does not go to the parent.
ObserverGetValueOwn(o) ==
  IF o = 0 \/ obs[o].contexts.val = Absent THEN Undef ELSE obs[o].contexts.val

\* Observer.get(id) for the context's id; OBSERVER?.get(id) of no observer
\* is undefined.
RECURSIVE ObserverGetValue(_)
ObserverGetValue(o) ==
  IF o = 0 THEN Undef
  ELSE IF obs[o].contexts.val # Absent THEN obs[o].contexts.val
  ELSE ObserverGetValue(obs[o].parent)

\* Observer.set(id, value)
ObserverSet(o, value) == [obs EXCEPT ![o].contexts.val = value]

\* a ?? b
Coalesce(a, b) == IF a = Undef THEN b ELSE a

\* context.get() / useContext(context): OBSERVER?.get(id) ?? defaultValue.
ContextGetCall ==
  /\ AtIns("useContext")
  /\ Goto(Advance(Top, Append(Top.vals, Coalesce(ObserverGetValue(OBSERVER), DefaultValue))))
  /\ UNCHANGED <<sig, obs, BATCH, ctx, ret, exc, env, hist>>

\* context.set(value): OBSERVER?.set(id, value).
ContextSetCall ==
  /\ AtIns("context.set")
  /\ obs' = IF OBSERVER = 0 THEN obs ELSE ObserverSet(OBSERVER, Cur.x)
  /\ pristine' = pristine \ {OBSERVER}
  /\ Goto(Advance(Top, Top.vals))
  /\ UNCHANGED <<sig, BATCH, ctx, ret, exc, env, runs, tracked, dead, glitch, uncaught,
                 registered, invoked, handled>>

AtBatch(phase) == stack # <<>> /\ Top.k = "batch" /\ Top.phase = phase

BatchCall ==
  /\ AtIns("batch")
  /\ Call([Top EXCEPT !.wait = TRUE], BatchFrame(Cur.f))
  /\ UNCHANGED <<sig, obs, BATCH, ctx, ret, exc, env, hist>>

\* batch: if (BATCH) return fn().
BatchNested ==
  /\ AtBatch("start") /\ exc = ""
  /\ Batching
  /\ Goto(FnFrame(Prog(Top.f)))
  /\ UNCHANGED <<sig, obs, BATCH, ctx, ret, exc, env, hist>>

\* batch: BATCH = new Map(); try { return fn() }.
BatchStart ==
  /\ AtBatch("start") /\ exc = ""
  /\ ~Batching
  /\ BATCH' = [active |-> TRUE, map |-> <<>>]
  /\ Call([Top EXCEPT !.phase = "try"], FnFrame(Prog(Top.f)))
  /\ UNCHANGED <<sig, obs, ctx, ret, exc, env, hist>>

\* A finally block that leaves the Map in place.
BatchKept == BATCH

\* BATCH = undefined
BatchUndefined == NoBatch

\* batch: finally, on return and on throw alike: BATCH = undefined.
BatchFinally ==
  /\ AtBatch("try")
  /\ BATCH' = BatchUndefined
  /\ exc' = ""
  /\ Goto([Top EXCEPT !.phase = "stale", !.batch = BATCH.map, !.i = 1,
                      !.retv = ret, !.excv = exc])
  /\ UNCHANGED <<sig, obs, ctx, ret, env, hist>>

\* The three passes over the staged signals; calls[i] is the call the pass
\* makes for the i-th entry of the Map.
BatchPass(phase, next, calls) ==
  /\ AtBatch(phase) /\ exc = ""
  /\ IF Top.i <= Len(Top.batch)
       THEN Call([Top EXCEPT !.i = @ + 1], calls[Top.i])
       ELSE Goto([Top EXCEPT !.phase = next, !.i = 1])
  /\ UNCHANGED <<sig, obs, BATCH, ctx, ret, exc, env, hist>>

\* A first pass that announces nothing: the sign of the change is wrong.
MarkUnstaleFirst(e) == StaleFrame(e[1], 0 - 1, FALSE)

MarkStale(e) == StaleFrame(e[1], 1, FALSE)
Commit(e) == SetFrame(e[1], "const", e[2])
MarkUnstale(e) == StaleFrame(e[1], 0 - 1, FALSE)

\* batch.forEach((value, signal) => signal.stale(1, false))
BatchStale ==
  BatchPass("stale", "set", [i \in 1..Len(Top.batch) |-> MarkStale(Top.batch[i])])
\* batch.forEach((value, signal) => signal.set(() => value))
BatchSet ==
  BatchPass("set", "unstale", [i \in 1..Len(Top.batch) |-> Commit(Top.batch[i])])
\* batch.forEach((value, signal) => signal.stale(-1, false))
BatchUnstale ==
  BatchPass("unstale", "end", [i \in 1..Len(Top.batch) |-> MarkUnstale(Top.batch[i])])

\* batch: the finally block is done; fn's result or error goes to the caller.
BatchEnd ==
  /\ AtBatch("end") /\ exc = ""
  /\ Return
  /\ ret' = Top.retv
  /\ exc' = Top.excv
  /\ UNCHANGED <<sig, obs, BATCH, ctx, env, hist>>

(***************************************************************************)
(* User code and the top-level caller                                      *)
(***************************************************************************)
\* if (<the value read last> > 0) { <the next Cur.x instructions> }
Branch ==
  /\ AtIns("ifPos")
  /\ Goto([Top EXCEPT !.pc = IF LastVal(Top.vals) > 0 THEN @ + 1 ELSE @ + 1 + Cur.x])
  /\ UNCHANGED <<sig, obs, BATCH, ctx, ret, exc, env, hist>>

ThrowError ==
  /\ AtIns("throw")
  /\ exc' = "Error"
  /\ UNCHANGED <<sig, obs, BATCH, ctx, stack, ret, env, hist>>

\* A call whose result the program does not use has returned.
Resume ==
  /\ \E o \in {"set", "createEffect", "createRoot", "dispose", "batch"} : Resumed(o)
  /\ Goto(Advance(Top, Top.vals))
  /\ UNCHANGED <<sig, obs, BATCH, ctx, ret, exc, env, hist>>

FnReturn ==
  /\ Busy /\ Top.k = "fn" /\ ~Top.wait
  /\ Top.pc > Len(Top.code)
  /\ Return
  /\ ret' = RetVal(Top.vals)
  /\ UNCHANGED <<sig, obs, BATCH, ctx, exc, env, hist>>

\* A batch without its finally block.
CatchesInWrap(fr) == fr.k = "Wrapper.wrap" /\ fr.phase \in {"try", "handlers"}

\* An error passes through a frame that has no try block around the call.
Catches(fr) ==
  \/ fr.k = "Wrapper.wrap" /\ fr.phase \in {"try", "handlers"}
  \/ fr.k = "batch" /\ fr.phase = "try"

Unwind ==
  /\ stack # <<>> /\ exc # ""
  /\ ~Catches(Top)
  /\ Return
  /\ UNCHANGED <<sig, obs, BATCH, ctx, ret, exc, env, hist>>

\* The error reaches the top-level caller.
TopCatch ==
  /\ stack = <<>> /\ exc # ""
  /\ uncaught' = exc
  /\ exc' = ""
  /\ UNCHANGED <<sig, obs, BATCH, ctx, stack, ret, env, runs, tracked, dead, glitch, logs>>

\* The top-level caller makes its next call.
TopOp ==
  /\ stack = <<>> /\ exc = ""
  /\ ops < MaxOps
  /\ \E code \in TopCodes(setup) : stack' = <<FnFrame(code)>> /\ op' = code
  /\ ops' = ops + 1
  /\ pre' = [s \in PlainSigs |-> sig[s].value]
  /\ runs' = [o \in ObsIds |-> 0]
  /\ uncaught' = ""
  /\ registered' = [o \in ObsIds |-> obs[o].cleanups]
  /\ invoked' = [o \in ObsIds |-> <<>>]
  /\ handled' = <<>>
  /\ UNCHANGED <<sig, obs, BATCH, ctx, ret, exc, slot, nextObs, setup, tracked, dead, glitch,
                 pristine>>

Next ==
  \/ SignalGet \/ SignalGetReturn \/ CallUndefined
  \/ UserSet \/ SignalSetEqual \/ SignalSetBatched \/ SignalSetAssign
  \/ SignalSetUnstale \/ SignalSetReturn
  \/ SignalStale \/ SignalStaleDone
  \/ ObserverDisposeChild \/ ObserverDisposeSignals \/ ObserverDisposeCleanup
  \/ ObserverDisposeClear
  \/ WrapperWrap \/ WrapperReturn \/ WrapperCatch \/ WrapperRethrow
  \/ WrapperHandler \/ WrapperHandled
  \/ ComputationRun \/ ComputationRunLink \/ ComputationUpdate \/ ComputationUpdateSet
  \/ ComputationStaleIgnore \/ ComputationStaleEnter \/ ComputationStaleCount
  \/ ComputationStaleRelease
  \/ CreateComputation \/ ComputationSignal \/ CreateMemoReturn
  \/ CreateRoot \/ UserDispose \/ Untracked \/ UntrackReturn
  \/ OnCleanupCall \/ OnErrorCall \/ ContextGetCall \/ ContextSetCall
  \/ BatchCall \/ BatchNested \/ BatchStart \/ BatchFinally
  \/ BatchStale \/ BatchSet \/ BatchUnstale \/ BatchEnd
  \/ Branch \/ ThrowError \/ Resume \/ FnReturn \/ Unwind \/ TopCatch \/ TopOp

Spec == Init /\ [][Next]_vars

(***************************************************************************)
(* Properties                                                              *)
(***************************************************************************)
\* The top-level call has come back: normally, or with an error.
Done == stack = <<>> /\ exc = "" /\ ops >= 1
Returned == Done /\ uncaught = ""

\* The top-level call is one setter call / one that changes the value.
PlainWrite == Len(op) = 1 /\ op[1].op = "set"
Changing == PlainWrite /\ op[1].y # pre[op[1].x]
TopBatch == Len(op) = 1 /\ op[1].op = "batch"
\* ... and its body is running.
InBody == TopBatch /\ Len(stack) >= 2 /\ stack[2].k = "batch" /\ stack[2].phase = "try"

Computations == {c \in ObsIds : obs[c].kind = "Computation"}

\* The graphs in which nothing throws, nothing is disposed by hand and no
\* computation calls batch.
Quiet == {"diamond", "chain", "early", "peek", "late", "pair", "dynamic"}

\* fn only reads signals, with tracking on.
Pure(f) == \A i \in 1..Len(Prog(f)) : Prog(f)[i].op \in {"get", "ifPos"}
PlainOnly(f) ==
  \A i \in 1..Len(Prog(f)) :
    \/ Prog(f)[i].op = "ifPos"
    \/ Prog(f)[i].op = "get" /\ Prog(f)[i].x <= NSig

\* What c's function yields on the values its sources hold now.
Eval(c) == Sources(Prog(obs[c].fn), 1, <<>>)

\* Computation c is on the call stack: being disposed, run or constructed.
Running(c) ==
  \E n \in 1..Len(stack) :
    \/ stack[n].k \in {"Computation.run", "Computation.update", "Computation"} /\ stack[n].c = c
    \/ stack[n].k = "Wrapper.wrap" /\ stack[n].observer = c
    \/ stack[n].k = "Observer.dispose" /\ stack[n].o = c

\* An observer holding a cleanup that throws: a dispose of it is left by the
\* error before its fields are emptied.
Frail(o) == \E i \in 1..Len(obs[o].cleanups) : Throw \in Range(Prog(obs[o].cleanups[i]))
\* An observer holding a cleanup that reads a signal: a dispose of it
\* subscribes it again after its signals were told to forget it.
Clings(o) ==
  \E i \in 1..Len(obs[o].cleanups) :
    \E j \in 1..Len(Prog(obs[o].cleanups[i])) : Prog(obs[o].cleanups[i])[j].op = "get"
\* Every computation holds its result signal: no first evaluation has thrown.
Whole == \A c \in Computations : obs[c].signal # 0

\* C1: in the diamond S -> A, B -> E, one changing write to S executes E at
\* most once, only after A and B both hold the new S, and exactly once by the
\* time the write returns, E having seen A + B = 2 * S.
C1_DiamondOnce ==
  (setup = "diamond" /\ Changing /\ op[1].x = 1) =>
    /\ runs[3] <= 1
    /\ runs[3] = 1 => /\ sig[SignalOf(1)].value = op[1].y
                      /\ sig[SignalOf(2)].value = op[1].y
    /\ Returned => runs[3] = 1 /\ sig[SignalOf(3)].value = 2 * op[1].y

C1_Witness ==
  /\ setup = "diamond" /\ Changing /\ op[1].x = 1 /\ op[1].y = 1
  /\ Returned
  /\ runs[1] = 1 /\ runs[2] = 1 /\ runs[3] = 1
  /\ sig[SignalOf(3)].value = 2

\* C2: in the wave of one non-batched write no computation's function
\* executes more than once, whatever the graph and the subscription order.
C2_AtMostOncePerWave ==
  (setup \in Quiet /\ PlainWrite) => \A c \in ObsIds : runs[c] <= 1

\* C3: when a changing non-batched write has returned normally, the stored
\* value of every computation is its function of the current values of its
\* dependencies (so every dependent has re-executed after the assignment).
C3_SettledAfterWrite ==
  (setup \in Quiet /\ Changing /\ Returned) =>
    \A c \in Computations :
      (c \notin dead /\ Pure(obs[c].fn)) => sig[SignalOf(c)].value = Eval(c)

\* C4: no read of a memo made while a computation's function is running
\* returns a value other than the memo's function of the values its sources
\* hold at the time of the read.
C4_GlitchFree == glitch = {}

\* C5: a setter call whose next value is the current one (under Object.is)
\* returns the current value in one step: no field of a signal or an
\* observer changes, nothing is staged, no stale call is made and no
\* computation runs.
EqualWrite ==
  /\ AtSet("start")
  /\ sig[Top.s].equals = "is"
  /\ ValueNext(Top) = sig[Top.s].value

C5_EqualWriteIsNoOp ==
  [][EqualWrite =>
       /\ sig' = sig /\ obs' = obs /\ BATCH' = BATCH /\ runs' = runs
       /\ stack' = Rest
       /\ ret' = sig[Top.s].value]_vars

C5_Witness ==
  /\ PlainWrite /\ ~Changing
  /\ Len(stack) = 1 /\ Resumed("set")
  /\ sig[op[1].x].observers # <<>>
  /\ ret = pre[op[1].x] /\ sig[op[1].x].value = pre[op[1].x]
  /\ \A c \in ObsIds : runs[c] = 0

\* C6: a batch that writes changing values to S1 and S2 executes a
\* computation reading S1 and S2 not at all while the body runs, never more
\* than once, and exactly once by the time batch returns, on the new values
\* of both.
BothChange == op = <<Batch("b12")>> /\ pre[1] # 1 /\ pre[2] # 1

C6_BatchCoalesces ==
  BothChange =>
    \A c \in Computations :
      obs[c].fn = "s1s2" =>
        /\ InBody => runs[c] = 0
        /\ runs[c] <= 1
        /\ Returned => runs[c] = 1 /\ sig[SignalOf(c)].value = 2

C6_Witness ==
  /\ setup = "pair" /\ BothChange /\ Returned
  /\ runs[1] = 1 /\ sig[SignalOf(1)].value = 2
  /\ sig[1].value = 1 /\ sig[2].value = 1

\* The value the last setter call of a batch body gives each plain signal
\* (w[s] = Undef: not written); inside the batch the current value of a
\* signal is its value from before the batch.
RECURSIVE LastWrites(_, _, _)
LastWrites(code, pc, w) ==
  IF pc > Len(code) THEN w
  ELSE LET ins == code[pc]
       IN CASE ins.op = "set" ->
                 LastWrites(code, pc + 1,
                            [w EXCEPT ![ins.x] = IF ins.f = "const" THEN ins.y
                                                 ELSE ApplyUpdate(ins.f, pre[ins.x])])
            [] ins.op = "batch" ->
                 LastWrites(code, pc + 1, LastWrites(Prog(ins.f), 1, w))
            [] OTHER -> LastWrites(code, pc + 1, w)

\* C7: after a batch every signal written in it holds the value of the last
\* write made to it in the batch.
C7_LastWriteWins ==
  (TopBatch /\ Returned) =>
    LET w == LastWrites(op, 1, [s \in PlainSigs |-> Undef])
    IN \A s \in PlainSigs : w[s] # Undef => sig[s].value = w[s]

\* C8: while the body of a batch runs, every plain signal holds, and its
\* getter and setter return, the value from before the batch; no stale call
\* is in progress, and no computation has run, except for a memo the body
\* itself reads.
JustRead(s) ==
  /\ Top.k = "fn" /\ ~Top.wait /\ Top.pc > 1
  /\ Top.code[Top.pc - 1].op = "get" /\ Top.code[Top.pc - 1].x = s

C8_BatchIsInvisible ==
  (InBody /\ Busy) =>
    /\ \A s \in PlainSigs :
         /\ sig[s].value = pre[s]
         /\ JustRead(s) => LastVal(Top.vals) = pre[s]
         /\ (Resumed("set") /\ Cur.x = s) => ret = pre[s]
    /\ \A n \in 1..Len(stack) : stack[n].k \notin {"Signal.stale", "Computation.stale"}
    /\ op[1].f # "b1inc" => \A c \in ObsIds : runs[c] = 0

C8_Witness ==
  /\ op = <<Batch("b101")>> /\ InBody /\ pre[1] = 0
  /\ BATCH.map = <<(<<1, 1>>)>>
  /\ sig[1].observers # <<>>
  /\ Busy /\ JustRead(1) /\ LastVal(Top.vals) = 0
  /\ \A c \in ObsIds : runs[c] = 0

\* C9: a computation that is not running is in the observer set of exactly
\* the signals it read, tracked, in its latest run; and a write to a plain
\* signal executes a computation of plain signals only if its latest run
\* read that signal.
Notifying(c) == {s \in SigIds : c \in Range(sig[s].observers)}

C9_DynamicDependencies ==
  /\ \A s \in SigIds : Cardinality(Range(sig[s].observers)) = Len(sig[s].observers)
  /\ \A c \in Computations :
       (c \notin dead /\ ~Running(c) /\ ~Frail(c) /\ ~Clings(c)) =>
         /\ Notifying(c) = tracked[c]
         /\ obs[c].signals = tracked[c]
  /\ PlainWrite =>
       \A c \in Computations :
         (obs[c].parent = 0 /\ PlainOnly(obs[c].fn) /\ ~Running(c) /\ runs[c] > 0)
           => op[1].x \in tracked[c]

C9_Witness ==
  /\ setup = "dynamic" /\ PlainWrite /\ op[1].x = 1 /\ Changing /\ Returned
  /\ sig[2].value = 0
  /\ tracked[1] = {2} /\ Notifying(1) = {2}
  /\ runs[1] = 0

\* C10: disposal cascades (an observer whose owner is disposed is disposed),
\* a disposed computation is in the observer set of no signal, and no write
\* starts a run of a disposed computation.
C10_DisposedDetached ==
  /\ \A c \in ObsIds : (obs[c].kind # "none" /\ obs[c].parent \in dead) => c \in dead
  /\ \A c \in dead : \A s \in SigIds : c \notin Range(sig[s].observers)
  /\ PlainWrite => ~(AtRun("start") /\ Top.c \in dead)
\* The frame that called the one at place n of the stack.
Caller(n) == stack[n - 1]
Roots == {r \in ObsIds : obs[r].kind = "Root"}

\* C11: a Root is in no observer's children; dispose runs on a Root only
\* when user code calls its dispose function, and on a computation created
\* in a Root only from that Root's dispose or at the start of its own run;
\* so the computations of a Root created in an effect still run on a write
\* to their dependency after the effect has re-run.
C11_RootIndependence ==
  /\ \A r \in Roots : \A o \in ObsIds : r \notin Range(obs[o].observers)
  /\ \A n \in 1..Len(stack) :
       stack[n].k = "Observer.dispose" =>
         LET o == stack[n].o
         IN /\ obs[o].kind = "Root" =>
                 /\ n > 1 /\ Caller(n).k = "fn" /\ Caller(n).wait
                 /\ Caller(n).code[Caller(n).pc].op = "dispose"
            /\ (obs[o].kind = "Computation" /\ obs[o].parent \in Roots) =>
                 /\ n > 1
                 /\ \/ Caller(n).k = "Computation.run" /\ Caller(n).c = o
                    \/ Caller(n).k = "Observer.dispose" /\ Caller(n).o = obs[o].parent
  /\ (setup = "nested" /\ Changing /\ op[1].x = 2 /\ Returned) =>
       \A c \in Computations : (obs[c].fn = "s2" /\ c \notin dead) => runs[c] = 1

C11_Witness ==
  /\ setup = "nested" /\ Changing /\ op[1].x = 2 /\ Returned
  /\ nextObs = 6
  /\ obs[2].kind = "Root" /\ obs[4].kind = "Root" /\ dead = {}
  /\ runs[1] = 0 /\ runs[3] = 1 /\ runs[5] = 1
\* The cleanups a dispose call in progress has still to invoke.
Remaining(fr) ==
  IF fr.phase = "children" THEN (IF fr.live THEN obs[fr.o].cleanups ELSE fr.cleanups)
  ELSE SubSeq(IF fr.live THEN obs[fr.o].cleanups ELSE fr.cleanups, fr.i, fr.n)
Disposing(o) ==
  \E n \in 1..Len(stack) : stack[n].k = "Observer.dispose" /\ stack[n].o = o

\* C12: every cleanup an observer registered is either still registered or
\* was invoked exactly once, in registration order; none is left when the
\* body of a run starts or when the observer is disposed; and when an
\* observer's cleanups are invoked, the computations created under it are
\* disposed already, their cleanups invoked.
C12_CleanupOnceInOrder ==
  /\ \A o \in ObsIds :
       (~Disposing(o) /\ ~Frail(o)) => registered[o] = invoked[o] \o obs[o].cleanups
  /\ \A n \in 1..Len(stack) :
       stack[n].k = "Observer.dispose" =>
         /\ registered[stack[n].o] = invoked[stack[n].o] \o Remaining(stack[n])
         /\ stack[n].phase = "cleanups" =>
              \A c \in Computations :
                obs[c].parent = stack[n].o =>
                  c \in dead /\ obs[c].cleanups = <<>> /\ registered[c] = invoked[c]
  /\ (AtWrap("enter") /\ Top.tracking /\ IsComputation(Top.observer)) =>
       obs[Top.observer].cleanups = <<>>
  /\ \A o \in dead : ~Running(o) => obs[o].cleanups = <<>>

C12_Witness ==
  /\ setup = "owner" /\ op = <<Dispose(4)>> /\ Returned
  /\ invoked[1] = <<"c4">> /\ invoked[2] = <<"c1", "c2">> /\ invoked[3] = <<"c3">>
  /\ \A o \in ObsIds : obs[o].cleanups = <<>>
\* A step of a dispose call on an observer that was disposed before and on
\* which nothing was registered since.
DisposeAgain == Busy /\ Top.k = "Observer.dispose" /\ Top.o \in pristine

\* C13: a dispose call on an already disposed observer, nothing having been
\* registered on it in between, calls no cleanup and no other dispose and
\* changes no field of any signal or observer.
C13_DisposeIdempotent ==
  [][DisposeAgain =>
       /\ sig' = sig /\ obs' = obs
       /\ invoked' = invoked /\ dead' = dead
       /\ Len(stack') <= Len(stack)]_vars

C13_Witness ==
  /\ setup = "owner" /\ ops = 2 /\ op = <<Dispose(4)>> /\ Returned
  /\ slot[4] \in pristine /\ obs[slot[4]].kind = "Root"
  /\ \A o \in ObsIds : registered[o] = <<>> /\ invoked[o] = <<>>
  /\ dead = {1, 2, 3}
\* The wrap calls that have installed their observer and tracking flag and
\* not yet restored the former ones; the pair installed by the innermost
\* such call below place n of the stack (none: undefined, false).
Installed(n) == stack[n].k = "Wrapper.wrap" /\ stack[n].phase \in {"try", "handlers"}
ContextBelow(n) ==
  LET ns == {m \in 1..(n - 1) : Installed(m)}
  IN IF ns = {} THEN <<0, FALSE>>
     ELSE LET m == CHOOSE x \in ns : \A y \in ns : y <= x
          IN <<stack[m].observer, stack[m].tracking>>

\* C14: the active observer and the tracking flag are always those of the
\* innermost scoped execution in progress, each scoped execution keeps the
\* pair of the one around it to restore on exit, and with no operation in
\* progress the observer is undefined and tracking is false.
C14_ContextStack ==
  /\ ctx = ContextBelow(Len(stack) + 1)
  /\ \A n \in 1..Len(stack) :
       Installed(n) => <<stack[n].OBSERVER_PREV, stack[n].TRACKING_PREV>> = ContextBelow(n)
  /\ stack = <<>> => OBSERVER = 0 /\ ~TRACKING

C14_Witness ==
  /\ setup = "guarded" /\ PlainWrite /\ handled # <<>>
  /\ stack = <<>> /\ exc = "" /\ uncaught = ""
  /\ OBSERVER = 0 /\ ~TRACKING
\* The k-th observer up the parent links from o (0: there is none), and the
\* first one, from o itself upwards, that has error handlers.
RECURSIVE Up(_, _)
Up(o, k) == IF o = 0 \/ k = 0 THEN o ELSE Up(obs[o].parent, k - 1)
Guarded(o) == {k \in 0..MaxObs : Up(o, k) # 0 /\ obs[Up(o, k)].contexts.err # <<>>}
Nearest(o) == Up(o, CHOOSE k \in Guarded(o) : \A j \in Guarded(o) : k <= j)

\* The last n entries of a log.
Last(log, n) == SubSeq(log, Len(log) - n + 1, Len(log))

\* C15: an error caught by a wrap call whose observer has handlers on its
\* parent chain is given to the handlers of the nearest such observer, each
\* once and in order, and to no other handler; it is not rethrown: no error
\* thrown by a computation reaches the top-level caller in the graphs where
\* every computation has a handler on its chain.
C15_ErrorAbsorbed ==
  /\ \A n \in 1..Len(stack) :
       (stack[n].k = "Wrapper.wrap" /\ stack[n].phase = "handlers") =>
         /\ Guarded(stack[n].observer) # {}
         /\ stack[n].fns = obs[Nearest(stack[n].observer)].contexts.err
         /\ stack[n].error = "Error"
         /\ Len(handled) >= stack[n].i - 1
         /\ n = Len(stack) =>
              Last(handled, stack[n].i - 1) =
                [j \in 1..(stack[n].i - 1) |-> <<stack[n].fns[j], "Error">>]
  /\ (setup \in {"guarded", "shielded"} /\ op # <<Batch("bthrow")>>) =>
       /\ exc # "Error" \/ stack # <<>>
       /\ uncaught # "Error"
  /\ (setup = "guarded" /\ Changing /\ op[1].x = 1 /\ op[1].y > 0 /\ dead = {} /\ Returned) =>
       handled = <<(<<"h2", "Error">>), (<<"h3", "Error">>), (<<"h1", "Error">>)>>

C15_Witness ==
  /\ setup = "guarded" /\ Changing /\ op[1].x = 1 /\ op[1].y > 0 /\ dead = {} /\ Returned
  /\ runs[3] = 1 /\ runs[4] = 1
  /\ handled = <<(<<"h2", "Error">>), (<<"h3", "Error">>), (<<"h1", "Error">>)>>
\* The computations that ran "boom" in this call of the top-level caller.
Booms == {c \in ObsIds : obs[c].fn = "boom" /\ runs[c] > 0}

\* C16: with no error handler on any parent chain (graph "fragile"), when
\* a computation's function has thrown during a top-level call (a creation,
\* a setter call or a batch), no handler was invoked and the call ends with
\* that error at the top-level caller.
C16_UnhandledReachesCaller ==
  setup = "fragile" =>
    /\ handled = <<>>
    /\ \A o \in ObsIds : obs[o].contexts.err = <<>>
    /\ (Done /\ Booms # {} /\ sig[1].value > 0) => uncaught = "Error"

\* The three kinds of caller: createEffect/createMemo, a setter, batch.
C16_Witness ==
  /\ setup = "fragile" /\ Done /\ Booms # {} /\ sig[1].value > 0 /\ uncaught = "Error"
  /\ op[1].op \in {"createEffect", "createMemo"} /\ ops = 2

C16_WitnessSetter ==
  /\ setup = "fragile" /\ Done /\ Booms # {} /\ sig[1].value > 0 /\ uncaught = "Error"
  /\ Changing

C16_WitnessBatch ==
  /\ setup = "fragile" /\ Done /\ Booms # {} /\ sig[1].value > 0 /\ uncaught = "Error"
  /\ op = <<Batch("b12")>>
\* The observers on o's parent chain, o included, and those of them that
\* have set the context, by their distance from o.
ChainOf(o) == {Up(o, k) : k \in 0..MaxObs} \ {0}
Setters(o) == {k \in 0..MaxObs : Up(o, k) # 0 /\ obs[Up(o, k)].contexts.val # Absent}
NearestSet(o) == obs[Up(o, CHOOSE k \in Setters(o) : \A j \in Setters(o) : k <= j)].contexts.val
\* What a read under o yields: as the claim has it, and with the default
\* also standing in for a nearest value that is undefined.
NearestOrDefault(o) == IF Setters(o) = {} THEN DefaultValue ELSE NearestSet(o)
NearestDefined(o) ==
  IF Setters(o) = {} \/ NearestSet(o) = Undef THEN DefaultValue ELSE NearestSet(o)

\* context.set leaves every other observer as it is, and every read under an
\* observer that does not have the active observer on its chain.
SetIsOwn ==
  AtIns("context.set") =>
    /\ OBSERVER # 0 => obs'[OBSERVER].contexts.val = Cur.x
    /\ \A o \in ObsIds :
         /\ o # OBSERVER => obs'[o] = obs[o]
         /\ OBSERVER \notin ChainOf(o) => NearestDefined(o)' = NearestDefined(o)
    /\ NearestDefined(0)' = NearestDefined(0)

\* C17 (as amended): a context read under an observer returns the value set
\* by the nearest observer on the parent chain (itself included) that set
\* the context, unless that value is undefined, and the default value when
\* that value is undefined or no observer on the chain set the context;
\* context.set writes the active observer's own scope only.
C17_ContextLookup ==
  [][/\ AtIns("useContext") => LastVal(Top.vals)' = NearestDefined(OBSERVER)
     /\ SetIsOwn]_vars

\* An effect whose parent set undefined, under a Root that set 0, has read
\* the default value 1.
C17_Witness ==
  /\ setup = "themed" /\ Busy /\ Top.k = "fn" /\ Top.code = Prog("leaf") /\ Top.pc = 3
  /\ OBSERVER # 0 /\ obs[OBSERVER].contexts.val = Absent
  /\ obs[obs[OBSERVER].parent].contexts.val = Undef
  /\ obs[obs[obs[OBSERVER].parent].parent].contexts.val = 0
  /\ LastVal(Top.vals) = DefaultValue

\* C17 (as stated): a context read returns the value set by the nearest
\* observer that set the context, whatever that value is.
C17_NearestSetValue ==
  [][AtIns("useContext") => LastVal(Top.vals)' = NearestOrDefault(OBSERVER)]_vars
\* The function on top of the stack is the body of an untrack call / the
\* function of computation c, called by Computation.run.
InUntrack ==
  /\ Len(stack) >= 3 /\ stack[Len(stack) - 1].k = "Wrapper.wrap"
  /\ Caller(Len(stack) - 1).k = "fn" /\ Caller(Len(stack) - 1).wait
  /\ Caller(Len(stack) - 1).code[Caller(Len(stack) - 1).pc].op = "untrack"
InRun(c) ==
  /\ Len(stack) >= 3 /\ stack[Len(stack) - 1].k = "Wrapper.wrap"
  /\ stack[Len(stack) - 1].observer = c
  /\ Caller(Len(stack) - 1).k \in {"Computation.update", "Computation"}
\* The function on top of the stack has called untrack before.
AfterUntrack == \E j \in 1..(Top.pc - 1) : Top.code[j].op = "untrack"
\* The computations that read S1 (the memo of variable 1) inside untrack only.
PeekS1 == {c \in Computations : obs[c].fn \in {"us1s2", "ushield"}}
PeekM1 == {c \in Computations : obs[c].fn \in {"s1um1", "s1?um1"}}
Subscribed(c, s) == c \in Range(sig[s].observers) \/ s \in obs[c].signals

\* C18: a read made by the body of an untrack call changes no observer set
\* and no signal set; a computation that reads a signal inside untrack only
\* is not subscribed to it and a write to it does not re-execute the
\* computation; a read made by a computation's function after an untrack
\* call of the same run, returned or ended by an absorbed error, subscribes
\* the computation.
C18_Untrack ==
  /\ [](/\ \A c \in PeekS1 : ~Subscribed(c, 1) /\ ((PlainWrite /\ op[1].x = 1) => runs[c] = 0)
        /\ \A c \in PeekM1 : slot[1] # 0 => ~Subscribed(c, SignalOf(slot[1])))
  /\ [][(AtIns("get") /\ Resolve(Cur.x) # 0) =>
          /\ InUntrack => sig' = sig /\ obs' = obs
          /\ \A c \in Computations :
               (InRun(c) /\ AfterUntrack) =>
                 /\ c \in Range(sig'[Resolve(Cur.x)].observers)
                 /\ Resolve(Cur.x) \in obs'[c].signals]_vars

\* S1 is positive and S2 is written: the effect that calls untrack on a
\* throwing function has run again, its handler has absorbed the error and
\* the read of S2 after it has subscribed the effect to S2, not to S1.
C18_Witness ==
  /\ setup = "shielded" /\ PlainWrite /\ op[1].x = 2 /\ Returned
  /\ sig[1].value > 0
  /\ handled = <<(<<"h5", "Error">>)>>
  /\ \E c \in PeekS1 : runs[c] = 1 /\ obs[c].signals = {2} /\ c \in Range(sig[2].observers)
\* createMemo or createEffect has returned to the function that called it.
Created == Resumed("createMemo") \/ Resumed("createEffect")

\* C19: while a computation is being constructed it has no result signal
\* yet, its function runs at most once and no Signal.set or Signal.stale
\* call is made on its result signal; when createMemo or createEffect has
\* returned, the function has run exactly once and the result signal holds
\* the value of that run, with no observers.
C19_CreationRunsOnce ==
  /\ \A n \in 1..Len(stack) :
       stack[n].k = "Computation" =>
         /\ runs[stack[n].c] <= 1
         /\ obs[stack[n].c].signal = 0
         /\ sig[SignalOf(stack[n].c)].value = Undef
         /\ \A m \in 1..Len(stack) :
              stack[m].k \in {"Signal.set", "Signal.stale"} => stack[m].s # SignalOf(stack[n].c)
  /\ Created =>
       /\ runs[Top.callee] = 1
       /\ obs[Top.callee].signal = SignalOf(Top.callee)
       /\ sig[SignalOf(Top.callee)].observers = <<>>
       /\ Pure(obs[Top.callee].fn) => sig[SignalOf(Top.callee)].value = Eval(Top.callee)

\* The effect of graph "dynamic" that reads S2 = 1 and then S1 = 0 has been
\* created: it ran once and holds 1.
C19_Witness ==
  /\ setup = "dynamic" /\ ops = 0 /\ Created /\ Top.callee = 1
  /\ obs[1].fn = "s2?s1" /\ runs[1] = 1
  /\ sig[SignalOf(1)].value = 1
\* The top-level call is a batch and its finally block is running.
Committing ==
  /\ TopBatch /\ Len(stack) >= 2 /\ stack[2].k = "batch"
  /\ stack[2].phase \in {"stale", "set", "unstale", "end"}
\* The body of the top-level batch has seen its inner batch return.
InnerReturned ==
  /\ op = <<Batch("bb")>> /\ InBody /\ Len(stack) = 3 /\ Top.k = "fn" /\ Top.pc = 3

\* C20: a batch call made while a batch is active opens no buffer and
\* commits nothing: the buffer stays active and the plain signals keep their
\* values for as long as the outermost body runs; the finally block of the
\* outermost batch starts with BATCH cleared and the values unchanged, its
\* setter calls find BATCH cleared, no computation runs before all of them
\* are made, and after them every staged signal holds its staged value (a
\* plain signal until batch returns).
C20_BatchDoesNotNest ==
  /\ \A n \in 1..Len(stack) :
       (stack[n].k = "batch" /\ stack[n].phase = "try") =>
         /\ BATCH.active
         /\ \A m \in (n + 1)..Len(stack) : stack[m].k = "batch" => stack[m].phase = "start"
  /\ InBody => \A s \in PlainSigs : sig[s].value = pre[s]
  /\ InnerReturned => BATCH.map # <<>>
  /\ Committing =>
       /\ Len(stack) = 2 => ~BATCH.active
       /\ (Len(stack) = 3 /\ Top.k = "Signal.set" /\ Top.phase = "start") => ~BATCH.active
       /\ stack[2].phase = "stale" => \A s \in PlainSigs : sig[s].value = pre[s]
       /\ stack[2].phase \in {"stale", "set"} =>
            \A n \in 3..Len(stack) : stack[n].k \notin {"Computation.update", "Wrapper.wrap"}
       /\ (stack[2].phase \in {"unstale", "end"} /\ Len(stack) = 2) =>
            \A i \in 1..Len(stack[2].batch) :
              (stack[2].batch[i][1] \in PlainSigs \/ (stack[2].phase = "unstale" /\ stack[2].i = 1))
                => sig[stack[2].batch[i][1]].value = stack[2].batch[i][2]

\* S1 = 0, S2 = 1; the outer body stages S2 = 0, the inner one S1 = 1; the
\* batch has returned with both applied and the effect on S1, S2 run once.
C20_Witness ==
  /\ setup = "pair" /\ op = <<Batch("bb")>> /\ Returned
  /\ pre[1] = 0 /\ pre[2] = 1
  /\ sig[1].value = 1 /\ sig[2].value = 0
  /\ runs[1] = 1

C20_WitnessInner ==
  /\ setup = "pair" /\ InnerReturned /\ pre[1] = 0 /\ pre[2] = 1
  /\ BATCH.map = <<(<<2, 0>>), (<<1, 1>>)>>
  /\ sig[1].value = 0 /\ sig[2].value = 1
\* The live computations that read plain signals only, S1 first.
ReadS1 ==
  {c \in Computations : c \notin dead /\ PlainOnly(obs[c].fn) /\ Prog(obs[c].fn)[1] = Get(S(1))}

\* C21: a batch whose body stages S1 = 1 and then throws ends with the error
\* at its caller, with BATCH cleared, with S1 = 1 and S2 untouched, and (in
\* the graphs where no commit-time run throws without a handler) with every
\* live computation that reads S1 and plain signals only executed when S1
\* has changed, holding its function of the committed values; a write by the
\* top-level caller is always assigned before the call ends.
C21_BatchBodyThrows ==
  /\ (op = <<Batch("bthrow")>> /\ Done /\ Whole) =>
       /\ uncaught = "Error"
       /\ ~BATCH.active
       /\ sig[1].value = 1 /\ sig[2].value = pre[2]
       /\ setup # "fragile" =>
            \A c \in ReadS1 : /\ pre[1] # 1 => runs[c] >= 1
                              /\ sig[SignalOf(c)].value = Eval(c)
  /\ Done => ~BATCH.active
  /\ (PlainWrite /\ Done) => sig[op[1].x].value = op[1].y

\* In the graph with an effect on S1 and S2: S1 was 0, the body has thrown,
\* the effect has run once on the committed S1.
C21_Witness ==
  /\ setup = "pair" /\ op = <<Batch("bthrow")>> /\ Done /\ uncaught = "Error"
  /\ pre[1] = 0 /\ sig[1].value = 1 /\ sig[2].value = pre[2]
  /\ runs[1] = 1 /\ sig[SignalOf(1)].value = 1 + pre[2]
\* C22: every error in flight was thrown by user code (a throw statement, or
\* a call of a variable that holds undefined): no call made by the library
\* itself fails.
C22_BookkeepingNeverThrows == exc \in {"", "Error", "TypeError"} /\ uncaught \in {"", "Error", "TypeError"}
\* C23: when the first write or batch of the top-level caller has returned
\* normally, in a graph where no function throws, every computation that is
\* not disposed has waiting = 0.
C23_Quiescence ==
  (setup \in Quiet /\ ops = 1 /\ (PlainWrite \/ TopBatch) /\ Returned) =>
    \A c \in Computations : c \notin dead => obs[c].waiting = 0
\* C24: in the chain S1, S2 -> A = S1 + S2 -> B = A -> E = B, a write or a
\* batch that leaves S1 + S2 as it was (A re-runs, if at all, to an equal
\* value) executes neither B nor E.
C24_FreshGating ==
  (setup = "chain" /\ Returned /\ pre[1] + pre[2] = sig[1].value + sig[2].value) =>
    \A c \in Computations : obs[c].fn \in {"m1", "m2"} => runs[c] = 0
\* A stale(-1) call has arrived at a computation whose waiting is 0.
LateUnstale ==
  /\ Busy /\ Top.k = "Computation.stale" /\ Top.phase = "start"
  /\ Top.change < 0 /\ obs[Top.c].waiting = 0

\* C25: the waiting counter of every computation is a natural number in
\* every state, and a stale(-1) call that finds it at 0 returns at once: no
\* field of an observer or a signal changes, no function is executed and no
\* call is made.
C25_WaitingNeverNegative ==
  /\ [](\A c \in ObsIds : obs[c].waiting \in Nat)
  /\ [][LateUnstale => /\ obs' = obs /\ sig' = sig /\ runs' = runs
                       /\ stack' = Rest /\ exc' = ""]_vars

\* The memo of graph "peek", refreshed by the effect's read during the
\* wave, has just been passed by the stale(-1) of S1: waiting is still 0
\* and it has run once.
C25_Witness ==
  /\ setup = "peek" /\ Changing /\ op[1].x = 1
  /\ Busy /\ Top.k = "Signal.stale" /\ Top.s = 1 /\ Top.change < 0 /\ Top.i = 3
  /\ Len(stack) = 3
  /\ sig[1].observers[2] = slot[1]
  /\ obs[slot[1]].waiting = 0 /\ runs[slot[1]] = 1
\* C26: whenever no dispose call is in progress, a signal is in a
\* computation's signals exactly if the computation is in the signal's
\* observers.
C26_MutualEdges ==
  (\A n \in 1..Len(stack) : stack[n].k # "Observer.dispose") =>
    \A c \in Computations : \A s \in SigIds :
      s \in obs[c].signals <=> c \in Range(sig[s].observers)
\* A cleanup has just thrown: the error is about to leave the dispose call
\* whose cleanups loop invoked it.
CleanupThrew ==
  stack # <<>> /\ exc # "" /\ Top.k = "Observer.dispose" /\ Top.phase = "cleanups"

\* C27: when a cleanup throws during dispose, the observer is in no signal's
\* observer set, the computations created under it are disposed, and its
\* cleanups, contexts, children and dependencies are emptied already; so no
\* cleanup that was invoked stays registered for a second dispose to invoke.
C27_ThrowingCleanup ==
  /\ CleanupThrew =>
       /\ \A s \in SigIds : Top.o \notin Range(sig[s].observers)
       /\ \A c \in Computations : obs[c].parent = Top.o => c \in dead
       /\ obs[Top.o] = Cleared(obs[Top.o])
  /\ \A o \in ObsIds :
       ~Disposing(o) =>
         Len(registered[o]) = Len(invoked[o]) + Len(obs[o].cleanups)

\* C28: in the graph with no error handler, once a call has come back, with
\* the error of a computation or without, every live computation that did
\* not throw has waiting = 0; and a changing write to S1 that returns has
\* executed each of them.
C28_NotWedged ==
  (setup = "fragile" /\ Done) =>
    \A c \in Computations :
      (c \notin dead /\ obs[c].fn = "s1") =>
        /\ obs[c].waiting = 0
        /\ (Changing /\ op[1].x = 1 /\ Returned) => runs[c] >= 1

\* The graphs in which every computation that throws has a handler on its
\* chain.
Handled == {"guarded", "shielded", "tolerant"}

\* C29: when the error of a computation re-run by a write is given to a
\* handler, the write returns normally with every waiting counter at 0; the
\* run that threw yields undefined (the memo of graph "tolerant" holds it),
\* and the other dependents of the written signal have run once, the memo's
\* dependent included.
C29_AbsorbedWaveContinues ==
  /\ (setup \in Handled /\ PlainWrite /\ Done) =>
       /\ uncaught = ""
       /\ \A c \in Computations : c \notin dead => obs[c].waiting = 0
  /\ (setup = "tolerant" /\ Changing /\ op[1].x = 1 /\ Done) =>
       /\ \A c \in Computations : runs[c] = 1
       /\ op[1].y > 0 =>
            /\ handled = <<(<<"h4", "Error">>)>>
            /\ sig[SignalOf(slot[1])].value = Undef
       /\ op[1].y = 0 => handled = <<>> /\ sig[SignalOf(slot[1])].value = 0

\* In graph "tolerant": the write of 1 to S1 has returned, the handler was
\* called once, the memo holds undefined, and all three computations ran.
C29_Witness ==
  /\ setup = "tolerant" /\ op = <<Set(S(1), 1)>> /\ pre[1] = 0 /\ Returned
  /\ handled = <<(<<"h4", "Error">>)>>
  /\ sig[SignalOf(slot[1])].value = Undef
  /\ \A c \in Computations : runs[c] = 1 /\ obs[c].waiting = 0

\* The program takes its next step whenever it has one: there is one thread
\* and every call runs to completion before the caller goes on.
FairSpec == Spec /\ WF_vars(Next)

\* No call is in progress / the identities of the model are used up, so
\* that a creation cannot be followed further.
Idle == stack = <<>> /\ exc = ""
Exhausted == nextObs > MaxObs

\* C30: every top-level call (a write, a batch, a read, a dispose) comes to
\* its end, and within one call no computation is executed more than twice.
C30_Termination ==
  /\ [](\A c \in ObsIds : runs[c] <= 2)
  /\ (stack # <<>>) ~> (Idle \/ Exhausted)

\* In the graph with a conditional read of a memo, a changing write to S1
\* has returned after the effect and the memo have run.
C30_Witness ==
  /\ setup = "late" /\ Changing /\ op[1].x = 1 /\ Returned
  /\ \E c \in Computations : runs[c] >= 1
====
